---- MODULE Spec2Model ----
(***************************************************************************)
(* Replication rule registry and component codec dispatch of               *)
(* bevy_replicon (src/replicon_core/replication_rules.rs).                 *)
(*                                                                         *)
(* Two processes (a server and a client) each own a World (the table of    *)
(* component types, which hands out ComponentId values) and a              *)
(* ReplicationRules resource (ids, info, marker_id).  The client also owns *)
(* one replicated entity and the server-to-client entity map; one message  *)
(* at a time is in flight from the server to the client.                   *)
(***************************************************************************)
EXTENDS Integers, Sequences, FiniteSets, TLC

VARIABLES app, hist, entity, entity_map, wire, last

vars == <<app, hist, entity, entity_map, wire, last>>

(***************************************************************************)
(* Bounds of the model.                                                    *)
(***************************************************************************)
\* replicate* calls per process
MaxCalls == 2
\* entries of the server-to-client entity map
MaxMappings == 1

Procs == {"server", "client"}

\* The replicated component types: Health(u16) embeds no entity,
\* Target(Entity) embeds one entity reference.
Types == {"Health", "Target"}

\* Integers are held as their little-endian bytes: a u16 is two bytes, a u64
\* eight.
LEBytes(u, n) == [i \in 1..n |-> (u \div (256 ^ (i - 1))) % 256]

U16(u) == LEBytes(u, 2)

\* Entity::to_bits: generation << 32 | index, a u64.
Entity(index, generation) == LEBytes(index, 4) \o LEBytes(generation, 4)

\* Values of the u16 field of Health: one byte, the first value that needs a
\* marker byte, u16::MAX.
HealthValues == {U16(7), U16(251), U16(65535)}

\* Entities of the server, one for each length of bincode's integer encoding
\* (one byte, u16, u32, u64), and entities of the client.
RemoteEntities == {Entity(2, 0), Entity(300, 0), Entity(70000, 0), Entity(2, 1)}
LocalEntities == {Entity(300, 0), Entity(7, 0)}

\* Option<T>: None is the empty sequence, Some(x) the sequence of x alone.
None == <<>>
Some(x) == <<x>>

(***************************************************************************)
(* The World's component table: ComponentId is the index at which the type *)
(* was first initialised.                                                  *)
(***************************************************************************)
Ignored(C) == IF C = "Health" THEN "Ignored<Health>" ELSE "Ignored<Target>"

RangeOf(s) == {s[i] : i \in 1..Len(s)}

component_id(components, T) == (CHOOSE i \in 1..Len(components) : components[i] = T) - 1

\* World::init_component::<T>(): the id of T, registering T when it is new.
init_component(components, T) ==
    IF T \in RangeOf(components)
    THEN [components |-> components, id |-> component_id(components, T)]
    ELSE [components |-> Append(components, T), id |-> Len(components)]

\* ReplicationRules::from_world
from_world(components) ==
    LET r == init_component(components, "Replication")
    IN  [components |-> r.components,
         ids |-> <<>>,
         info |-> <<>>,
         marker_id |-> r.id]

(***************************************************************************)
(* Function pointers: a generic function and the type it was instantiated  *)
(* with.                                                                   *)
(***************************************************************************)
Fn(name, C) == [fn |-> name, C |-> C]

\* ids.insert(component_id, replication_id): a later insert replaces the value.
MapInsert(m, k, v) == [x \in (DOMAIN m) \cup {k} |-> IF x = k THEN v ELSE m[x]]

\* The mistake of numbering the record by the length after the push.
replicate_with_off_by_one(a, C, serialize, deserialize) ==
    LET c == init_component(a.components, C)
        i == init_component(c.components, Ignored(C))
        info == Append(a.info, [ignored_id |-> i.id, serialize |-> serialize,
                                deserialize |-> deserialize,
                                remove |-> Fn("remove_component", C)])
    IN  [components |-> i.components,
         ids |-> MapInsert(a.ids, c.id, Len(info)),
         info |-> info,
         marker_id |-> a.marker_id]

\* The mistake of recording the component's own id as its Ignored<C> id.
replicate_with_wrong_marker(a, C, serialize, deserialize) ==
    LET c == init_component(a.components, C)
        i == init_component(c.components, Ignored(C))
        info == Append(a.info, [ignored_id |-> c.id, serialize |-> serialize,
                                deserialize |-> deserialize,
                                remove |-> Fn("remove_component", C)])
    IN  [components |-> i.components,
         ids |-> MapInsert(a.ids, c.id, Len(info) - 1),
         info |-> info,
         marker_id |-> a.marker_id]

\* The mistake of keying the ordinal by the host's ComponentId.
replicate_with_host_id(a, C, serialize, deserialize) ==
    LET c == init_component(a.components, C)
        i == init_component(c.components, Ignored(C))
        info == Append(a.info, [ignored_id |-> i.id, serialize |-> serialize,
                                deserialize |-> deserialize,
                                remove |-> Fn("remove_component", C)])
    IN  [components |-> i.components,
         ids |-> MapInsert(a.ids, c.id, c.id % Len(info)),
         info |-> info,
         marker_id |-> a.marker_id]

\* AppReplicationExt::replicate_with
replicate_with(a, C, serialize, deserialize) ==
    LET c == init_component(a.components, C)
        i == init_component(c.components, Ignored(C))
        info == Append(a.info, [ignored_id |-> i.id, serialize |-> serialize,
                                deserialize |-> deserialize,
                                remove |-> Fn("remove_component", C)])
    IN  [components |-> i.components,
         ids |-> MapInsert(a.ids, c.id, Len(info) - 1),
         info |-> info,
         marker_id |-> a.marker_id]

\* AppReplicationExt::replicate
replicate(a, C) ==
    replicate_with(a, C, Fn("serialize_component", C), Fn("deserialize_component", C))

\* AppReplicationExt::replicate_mapped
replicate_mapped(a, C) ==
    replicate_with(a, C, Fn("serialize_component", C),
                         Fn("deserialize_mapped_component", C))

\* Functions of the host application handed to replicate_with.
custom_serialize(C) == Fn("custom_serialize", C)
custom_deserialize(C) == Fn("custom_deserialize", C)

\* ReplicationRules::get_ids, read at one component id.
get_ids(a) == a.ids

\* ReplicationRules::get_marker_id
get_marker_id(a) == a.marker_id

\* The in-range part of ReplicationRules::get_info.
get_info(a, replication_id) == a.info[replication_id + 1]

\* ReplicationRules::ignored_id
ignored_id(a, cid) ==
    IF cid \in DOMAIN get_ids(a)
    THEN Some(get_info(a, get_ids(a)[cid]).ignored_id)
    ELSE None

\* The send path's lookup: the ids map read at the ComponentId of type C.
ordinal_for(a, C) ==
    IF C \in RangeOf(a.components) /\ component_id(a.components, C) \in DOMAIN get_ids(a)
    THEN Some(get_ids(a)[component_id(a.components, C)])
    ELSE None

(***************************************************************************)
(* The registry specification: both processes register independently.      *)
(***************************************************************************)
NoMessage == [kind |-> "none"]
Idle == [op |-> "none"]

CodecIdle ==
    /\ entity = [C \in Types |-> None]
    /\ entity_map = <<>>
    /\ wire = NoMessage
    /\ last = Idle

Init ==
    /\ app = [p \in Procs |-> from_world(<<>>)]
    /\ hist = [p \in Procs |-> <<>>]
    /\ CodecIdle

Call(C, kind) == [C |-> C, kind |-> kind]

Replicate(p, C) ==
    /\ Len(hist[p]) < MaxCalls
    /\ app' = [app EXCEPT ![p] = replicate(app[p], C)]
    /\ hist' = [hist EXCEPT ![p] = Append(@, Call(C, "replicate"))]
    /\ UNCHANGED <<entity, entity_map, wire, last>>

ReplicateMapped(p, C) ==
    /\ Len(hist[p]) < MaxCalls
    /\ app' = [app EXCEPT ![p] = replicate_mapped(app[p], C)]
    /\ hist' = [hist EXCEPT ![p] = Append(@, Call(C, "replicate_mapped"))]
    /\ UNCHANGED <<entity, entity_map, wire, last>>

ReplicateWith(p, C) ==
    /\ Len(hist[p]) < MaxCalls
    /\ app' = [app EXCEPT ![p] =
                  replicate_with(app[p], C, custom_serialize(C), custom_deserialize(C))]
    /\ hist' = [hist EXCEPT ![p] = Append(@, Call(C, "replicate_with"))]
    /\ UNCHANGED <<entity, entity_map, wire, last>>

\* The host initialises an unrelated component type, which takes the next ComponentId.
InitHostComponent(p) ==
    /\ "Sprite" \notin RangeOf(app[p].components)
    /\ app' = [app EXCEPT ![p].components = init_component(@, "Sprite").components]
    /\ UNCHANGED <<hist, entity, entity_map, wire, last>>

Next ==
    \/ \E p \in Procs, C \in Types : Replicate(p, C)
    \/ \E p \in Procs, C \in Types : ReplicateMapped(p, C)
    \/ \E p \in Procs, C \in Types : ReplicateWith(p, C)
    \/ \E p \in Procs : InitHostComponent(p)

Spec == Init /\ [][Next]_vars

(***************************************************************************)
(* bincode, DefaultOptions: little endian, variable-length integers.  An   *)
(* unsigned integer below 251 takes one byte; otherwise a marker byte      *)
(* precedes its little-endian literal: 251 and two bytes up to u16::MAX,   *)
(* 252 and four bytes up to u32::MAX, 253 and eight bytes above.  The      *)
(* decoder reads the literal the marker announces, whatever its value;     *)
(* markers 254 (u128) and 255 are errors for the integers used here.       *)
(***************************************************************************)
SINGLE_BYTE_MAX == 250
U16_BYTE == 251
U32_BYTE == 252
U64_BYTE == 253
U128_BYTE == 254

\* The bytes of the integer field of a component: Health(u16), Target(Entity).
Width(D) == IF D = "Health" THEN 2 ELSE 8

\* The literal widened or cut to n bytes.
Pad(lit, n) == [i \in 1..n |-> IF i <= Len(lit) THEN lit[i] ELSE 0]

\* The value of the literal is below 256^n.
FitsIn(lit, n) == \A i \in (n + 1)..Len(lit) : lit[i] = 0

Ok(v, rest) == [ok |-> TRUE, value |-> v, rest |-> rest]
Err(e) == [ok |-> FALSE, error |-> e]

serialize_varint(lit) ==
    IF FitsIn(lit, 1) /\ lit[1] <= SINGLE_BYTE_MAX THEN <<lit[1]>>
    ELSE IF FitsIn(lit, 2) THEN <<U16_BYTE>> \o Pad(lit, 2)
    ELSE IF FitsIn(lit, 4) THEN <<U32_BYTE>> \o Pad(lit, 4)
    ELSE <<U64_BYTE>> \o Pad(lit, 8)

\* The u64 read from the cursor, and the bytes left in the cursor.
deserialize_varint(bytes) ==
    IF Len(bytes) = 0 THEN Err("Io(UnexpectedEof)")
    ELSE LET b == bytes[1]
             n == IF b = U16_BYTE THEN 2 ELSE IF b = U32_BYTE THEN 4 ELSE 8
         IN  IF b <= SINGLE_BYTE_MAX THEN Ok(Pad(<<b>>, 8), Tail(bytes))
             ELSE IF b = U128_BYTE THEN Err("Custom(u128 range)")
             ELSE IF b > U128_BYTE THEN Err("Custom(extension point)")
             ELSE IF Len(bytes) < 1 + n THEN Err("Io(UnexpectedEof)")
             ELSE Ok(Pad(SubSeq(bytes, 2, n + 1), 8),
                     SubSeq(bytes, n + 2, Len(bytes)))

\* Health(u16): the varint is cast to u16, which fails above u16::MAX.
deserialize_u16(bytes) ==
    LET d == deserialize_varint(bytes)
    IN  IF ~d.ok THEN d
        ELSE IF ~FitsIn(d.value, 2) THEN Err("Custom(invalid cast)")
        ELSE Ok(Pad(d.value, 2), d.rest)

\* Target(Entity): Entity::from_bits of the u64, any value.
deserialize_u64(bytes) == deserialize_varint(bytes)

\* DefaultOptions::new().serialize_into(cursor, component)
serialize_into(C, value) == serialize_varint(value)

\* DefaultOptions::new().deserialize_from(cursor)
deserialize_from(C, bytes) ==
    IF C = "Health" THEN deserialize_u16(bytes) ELSE deserialize_u64(bytes)

(***************************************************************************)
(* The codec functions.  A call returns its result, the entity as it       *)
(* leaves it, the values it inserted and the entities it handed to the     *)
(* mapper, in order.                                                       *)
(***************************************************************************)
\* The mistake of writing the value as one raw byte.
serialize_component_raw_byte(C, value) == [result |-> "Ok", bytes |-> <<value[1]>>]

\* serialize_component::<C>
serialize_component(C, value) == [result |-> "Ok", bytes |-> serialize_into(C, value)]

Outcome(result, e, inserts, maps) ==
    [result |-> result, entity |-> e, inserts |-> inserts, maps |-> maps]

\* EntityMut::insert: replaces the component of that type.
insert(e, C, value) == [e EXCEPT ![C] = Some(value)]

\* The mistake of installing a default component when decoding fails.
deserialize_component_default_on_error(C, e, bytes) ==
    LET d == deserialize_from(C, bytes)
    IN  IF ~d.ok
        THEN Outcome("Err", insert(e, C, Pad(<<>>, Width(C))),
                     <<Pad(<<>>, Width(C))>>, <<>>)
        ELSE Outcome("Ok", insert(e, C, d.value), <<d.value>>, <<>>)

\* deserialize_component::<C>
deserialize_component(C, e, bytes) ==
    LET d == deserialize_from(C, bytes)
    IN  IF ~d.ok THEN Outcome("Err", e, <<>>, <<>>)
        ELSE Outcome("Ok", insert(e, C, d.value), <<d.value>>, <<>>)

\* The mistake of handing the server's entity back unmapped.
ClientMapper_map_unmapped(emap, e) == e

\* ClientMapper::map: the local entity of a server entity; a miss creates nothing.
ClientMapper_map(emap, e) == IF e \in DOMAIN emap THEN emap[e] ELSE e

\* MapNetworkEntities::map_entities of the two types: Target maps its one entity,
\* Health holds none.
map_entities(C, value, emap) ==
    IF C = "Target"
    THEN [value |-> ClientMapper_map(emap, value), maps |-> <<value>>]
    ELSE [value |-> value, maps |-> <<>>]

\* deserialize_mapped_component::<C>
deserialize_mapped_component(C, e, emap, bytes) ==
    LET d == deserialize_from(C, bytes)
    IN  IF ~d.ok THEN Outcome("Err", e, <<>>, <<>>)
        ELSE LET m == map_entities(C, d.value, emap)
             IN  Outcome("Ok", insert(e, C, m.value), <<m.value>>, m.maps)

\* The mistake of clearing the entity instead of removing one component.
remove_component_clear(C, e) == [D \in DOMAIN e |-> None]

\* remove_component::<C>: EntityMut::remove::<C>, nothing when C is absent.
remove_component(C, e) == [e EXCEPT ![C] = None]

\* The entries of the server-to-client entity map, in the order they are added.
Mappings ==
    <<[server |-> Entity(2, 1), client |-> Entity(300, 0)],
      [server |-> Entity(300, 0), client |-> Entity(7, 0)]>>

EntityMapOf(n) ==
    [r \in {Mappings[i].server : i \in 1..n} |->
        Mappings[CHOOSE i \in 1..n : Mappings[i].server = r].client]

\* The values a function of the host builds without the cursor: for Target,
\* what the mapper returns on a hit.
ConstantValues(D) ==
    IF D = "Health" THEN {U16(7)}
    ELSE {ClientMapper_map(EntityMapOf(1), Mappings[1].server)}

\* The values a function of the host reads from the cursor: the varint that
\* bincode decodes, or the leading bytes taken as a fixed-width integer.
DecodedValues(D, bytes) ==
    (IF deserialize_from(D, bytes).ok THEN {deserialize_from(D, bytes).value} ELSE {})
        \cup (IF Len(bytes) >= Width(D) THEN {Pad(bytes, Width(D))} ELSE {})

\* What a function of the host application may do when it is called through a
\* stored pointer.  Its code is not part of the program, so a call draws any
\* outcome its signature allows.  A custom serialize
\* (Ptr, &mut Cursor<Vec<u8>>) writes some payload (nothing, a constant, the
\* fixed-width value, the varint) and succeeds or fails.  A custom deserialize
\* (&mut EntityMut, &mut NetworkEntityMap, &mut Cursor<Bytes>) succeeds or fails
\* after any number of inserts, removals, mapper calls and entity map writes:
\* it may leave every component of the entity as it was, absent, or set to a
\* value it built; the component of its own type C also to the value it read
\* from the cursor (an entity mapped or not); and the entity map as it was or
\* with further entries of Mappings.
CustomPayloads(value) ==
    {<<>>, <<99>>, value, serialize_varint(value)}

custom_serialize_outcomes(C, value) ==
    {[result |-> r, bytes |-> b] : r \in {"Ok", "Err"}, b \in CustomPayloads(value)}

CustomEntityMaps(emap) ==
    {EntityMapOf(n) : n \in Cardinality(DOMAIN emap)..Len(Mappings)}

\* The values the function registered for C may give the component D.
ComponentValues(C, D, emap, bytes) ==
    ConstantValues(D)
        \cup (IF D = C THEN DecodedValues(D, bytes) ELSE {})
        \cup (IF D = C /\ D = "Target"
              THEN {ClientMapper_map(m, v) : m \in CustomEntityMaps(emap),
                                            v \in DecodedValues(D, bytes)}
              ELSE {})

CustomComponent(C, e, D, emap, bytes) ==
    {e[D], None} \cup {Some(v) : v \in ComponentValues(C, D, emap, bytes)}

CustomEntities(C, e, emap, bytes) ==
    {[D \in Types |-> IF D = "Health" THEN h ELSE t] :
        h \in CustomComponent(C, e, "Health", emap, bytes),
        t \in CustomComponent(C, e, "Target", emap, bytes)}

custom_deserialize_outcomes(C, e, emap, bytes) ==
    {[result |-> r, entity |-> x, entity_map |-> m] :
        r \in {"Ok", "Err"}, x \in CustomEntities(C, e, emap, bytes),
        m \in CustomEntityMaps(emap)}

\* A call through a stored serialize pointer: the outcomes it may have.
call_serialize(f, value) ==
    IF f.fn = "serialize_component" THEN {serialize_component(f.C, value)}
    ELSE custom_serialize_outcomes(f.C, value)

\* The outcome of a built-in function, which leaves the entity map to the mapper.
BuiltIn(o, emap) ==
    [result |-> o.result, entity |-> o.entity, entity_map |-> emap,
     inserts |-> o.inserts, maps |-> o.maps]

\* A call through a stored deserialize pointer: the outcomes it may have.
call_deserialize(f, e, emap, bytes) ==
    IF f.fn = "deserialize_mapped_component"
    THEN {BuiltIn(deserialize_mapped_component(f.C, e, emap, bytes), emap)}
    ELSE IF f.fn = "deserialize_component"
    THEN {BuiltIn(deserialize_component(f.C, e, bytes), emap)}
    ELSE custom_deserialize_outcomes(f.C, e, emap, bytes)

(***************************************************************************)
(* The codec specification: both processes registered the same sequence of *)
(* replicate* calls; the server sends one message at a time and the client *)
(* applies it.                                                             *)
(***************************************************************************)
ApplyCall(a, call) ==
    IF call.kind = "replicate" THEN replicate(a, call.C)
    ELSE IF call.kind = "replicate_mapped" THEN replicate_mapped(a, call.C)
    ELSE replicate_with(a, call.C, custom_serialize(call.C), custom_deserialize(call.C))

RECURSIVE AppAfter(_)
AppAfter(script) ==
    IF script = <<>> THEN from_world(<<>>)
    ELSE ApplyCall(AppAfter(SubSeq(script, 1, Len(script) - 1)), script[Len(script)])

CodecCalls ==
    {Call(C, k) : C \in Types, k \in {"replicate", "replicate_mapped", "replicate_with"}}

\* Every sequence of at most MaxCalls replicate* calls, the empty one and those
\* that register a type again included.
CodecScripts == UNION {[1..n -> CodecCalls] : n \in 0..MaxCalls}

Values(C) == IF C = "Health" THEN HealthValues ELSE RemoteEntities

InitCodec ==
    /\ \E script \in CodecScripts :
          /\ app = [p \in Procs |-> AppAfter(script)]
          /\ hist = [p \in Procs |-> script]
    /\ entity = [C \in Types |-> None]
    /\ entity_map = EntityMapOf(MaxMappings)
    /\ wire = NoMessage
    /\ last = Idle

\* The send path: the registered serialize function of C, under C's ordinal.
\* Nothing is sent when the function fails.  A message of the default codec is
\* marked with the value it encodes.
Send(C, v) ==
    /\ wire = NoMessage
    /\ ordinal_for(app["server"], C) # None
    /\ LET rid == ordinal_for(app["server"], C)[1]
           f == get_info(app["server"], rid).serialize
       IN  \E s \in call_serialize(f, v) :
              /\ wire' = IF s.result # "Ok" THEN NoMessage
                         ELSE IF f.fn = "serialize_component"
                         THEN [kind |-> "insert", rid |-> rid, bytes |-> s.bytes,
                               shape |-> "sent", C |-> C, value |-> v]
                         ELSE [kind |-> "insert", rid |-> rid, bytes |-> s.bytes,
                               shape |-> "sent", C |-> C]
              /\ last' = [op |-> "serialize", fn |-> f, result |-> s.result]
    /\ UNCHANGED <<app, hist, entity, entity_map>>

\* The send path tells the client that C was removed.  The message is marked
\* when the operation before it was a removal of C too.
SendRemoval(C) ==
    /\ wire = NoMessage
    /\ ordinal_for(app["server"], C) # None
    /\ wire' = [kind |-> "remove", rid |-> ordinal_for(app["server"], C)[1],
                again |-> last.op = "remove" /\ last.fn.C = C]
    /\ last' = Idle
    /\ UNCHANGED <<app, hist, entity, entity_map>>

\* Encodings cut short (to nothing, before the last byte), and encodings whose
\* marker byte is no integer marker or whose literal exceeds the field.
Truncated(C) ==
    UNION {{SubSeq(serialize_into(C, v), 1, k) : k \in {0, Len(serialize_into(C, v)) - 1}}
              : v \in Values(C)}

Corrupted(C) ==
    {<<U128_BYTE>>, <<U128_BYTE + 1>> \o Tail(serialize_varint(U16(65535)))}
        \cup (IF C = "Health" THEN {serialize_varint(Entity(65536, 0))} ELSE {})

\* A buggy, stale or hostile peer: a malformed payload of the default encoding
\* for a registered ordinal whose record decodes it.
SendMalformed(rid, bytes, shape) ==
    /\ wire = NoMessage
    /\ rid < Len(app["client"].info)
    /\ get_info(app["client"], rid).deserialize.fn # "custom_deserialize"
    /\ LET C == get_info(app["client"], rid).deserialize.C
       IN  /\ \/ shape = "truncated" /\ bytes \in Truncated(C)
              \/ shape = "corrupted" /\ bytes \in Corrupted(C)
           /\ wire' = [kind |-> "insert", rid |-> rid, bytes |-> bytes,
                       shape |-> shape, C |-> C]
    /\ last' = Idle
    /\ UNCHANGED <<app, hist, entity, entity_map>>

\* The payloads that arrive under an unknown ordinal.
UnknownValues(C) == IF C = "Health" THEN {U16(65535)} ELSE {Entity(2, 1)}

\* A peer with more registrations: an ordinal the client has no record for.
SendUnknownOrdinal(rid, C, v) ==
    /\ wire = NoMessage
    /\ rid >= Len(app["client"].info)
    /\ wire' = [kind |-> "insert", rid |-> rid, bytes |-> serialize_into(C, v),
                shape |-> "unknown ordinal", C |-> C]
    /\ last' = Idle
    /\ UNCHANGED <<app, hist, entity, entity_map>>

\* What a call reports besides the state it leaves: its result and, for the
\* functions of this file, the values inserted and the entities mapped.  For
\* those functions the receive path also notes what the message was.
Report(r) == [k \in DOMAIN r \ {"entity", "entity_map"} |-> r[k]]

\* The receive path: get_info(rid).deserialize on the payload.
Receive ==
    /\ wire.kind = "insert"
    /\ wire.rid < Len(app["client"].info)
    /\ LET f == get_info(app["client"], wire.rid).deserialize
       IN  \E r \in call_deserialize(f, entity, entity_map, wire.bytes) :
              /\ entity' = r.entity
              /\ entity_map' = r.entity_map
              /\ last' = (IF f.fn = "custom_deserialize"
                           THEN [op |-> "deserialize", fn |-> f]
                           ELSE [op |-> "deserialize", fn |-> f,
                                 shape |-> wire.shape,
                                 sent |-> IF wire.shape = "sent"
                                          THEN Some(wire.value) ELSE None])
                             @@ Report(r)
    /\ wire' = NoMessage
    /\ UNCHANGED <<app, hist>>

\* get_info(rid) past the end of info: get_unchecked reads memory that holds no
\* record.  The process aborts, or the bytes read are taken for a record (one
\* left there by an earlier registry, say) and some deserialize function,
\* built-in or of the host, runs on the payload.
GarbagePointers ==
    {Fn(n, C) : n \in {"deserialize_component", "deserialize_mapped_component",
                       "custom_deserialize"},
                C \in Types}

ReceiveUnknownOrdinal ==
    /\ wire.kind = "insert"
    /\ wire.rid >= Len(app["client"].info)
    /\ \/ /\ last' = [op |-> "get_info", result |-> "abort",
                      inserts |-> <<>>, maps |-> <<>>]
          /\ UNCHANGED <<entity, entity_map>>
       \/ \E f \in GarbagePointers :
             \E r \in call_deserialize(f, entity, entity_map, wire.bytes) :
                /\ entity' = r.entity
                /\ entity_map' = r.entity_map
                /\ last' = [op |-> "get_info", fn |-> f]
                               @@ Report(r)
    /\ wire' = NoMessage
    /\ UNCHANGED <<app, hist>>

\* The receive path: get_info(rid).remove on the entity.
ReceiveRemoval ==
    /\ wire.kind = "remove"
    /\ LET f == get_info(app["client"], wire.rid).remove
       IN  /\ entity' = remove_component(f.C, entity)
           /\ last' = [op |-> "remove", fn |-> f, result |-> "Ok",
                       present |-> entity[f.C] # None, again |-> wire.again]
    /\ wire' = NoMessage
    /\ UNCHANGED <<app, hist, entity_map>>

NextCodec ==
    \/ \E C \in Types : \E v \in Values(C) : Send(C, v)
    \/ \E C \in Types : SendRemoval(C)
    \/ \E rid \in 0..(MaxCalls - 1) :
          \E bytes \in Truncated("Health") \cup Truncated("Target") :
             SendMalformed(rid, bytes, "truncated")
    \/ \E rid \in 0..(MaxCalls - 1) :
          \E bytes \in Corrupted("Health") \cup Corrupted("Target") :
             SendMalformed(rid, bytes, "corrupted")
    \/ \E rid \in 0..MaxCalls : \E C \in Types : \E v \in UnknownValues(C) :
          SendUnknownOrdinal(rid, C, v)
    \/ Receive
    \/ ReceiveUnknownOrdinal
    \/ ReceiveRemoval

CodecSpec == InitCodec /\ [][NextCodec]_vars

(***************************************************************************)
(* Claims about the registry.                                              *)
(***************************************************************************)
RegisteredTypes(p) == {hist[p][k].C : k \in 1..Len(hist[p])}

\* C1 (as claimed): the k-th replicate* call of a process is assigned ReplicationId
\* k-1, and in every later state the ids map still gives k-1 for the type that
\* call registered.
C1_OrdinalStability ==
    \A p \in Procs : \A k \in 1..Len(hist[p]) :
        /\ get_info(app[p], k - 1).remove.C = hist[p][k].C
        /\ ordinal_for(app[p], hist[p][k].C) = Some(k - 1)

\* C2 (as claimed): after any sequence of replicate* calls, repeated types
\* included, no component type owns more than one record of the info vector.
C2_NoDuplicateRecords ==
    \A p \in Procs : \A C \in Types :
        Cardinality({k \in 1..Len(app[p].info) : app[p].info[k].remove.C = C}) <= 1

\* C3: two registries that executed the same sequence of replicate* calls give
\* every type the same ReplicationId, whatever ComponentId each host assigned.
C3_CrossProcessAgreement ==
    hist["server"] = hist["client"] =>
        \A C \in Types : ordinal_for(app["server"], C) = ordinal_for(app["client"], C)

C3_Witness ==
    /\ hist["server"] = hist["client"]
    /\ Len(hist["server"]) >= 2
    /\ \E C \in RegisteredTypes("server"), D \in RegisteredTypes("server") :
          /\ C # D
          /\ component_id(app["server"].components, C)
                 # component_id(app["client"].components, C)
          /\ ordinal_for(app["server"], C) = Some(0)
          /\ ordinal_for(app["client"], C) = Some(0)
          /\ ordinal_for(app["client"], D) = Some(1)

\* C6: ignored_id(component_id) is Some(id of Ignored<C>) exactly when
\* component_id is the id of a type C registered by a replicate* call, and None
\* for every other component id.
C6_ExclusionMarkerLookup ==
    \A p \in Procs : \A cid \in 0..Len(app[p].components) :
        LET T == IF cid < Len(app[p].components) THEN app[p].components[cid + 1]
                 ELSE "unregistered"
        IN  IF T \in RegisteredTypes(p)
            THEN ignored_id(app[p], cid)
                     = Some(component_id(app[p].components, Ignored(T)))
            ELSE ignored_id(app[p], cid) = None

C6_Witness ==
    \E p \in Procs :
        /\ RegisteredTypes(p) = Types
        /\ "Sprite" \in RangeOf(app[p].components)
        /\ ignored_id(app[p], component_id(app[p].components, "Health"))
               = Some(component_id(app[p].components, "Ignored<Health>"))
        /\ ignored_id(app[p], component_id(app[p].components, "Target"))
               = Some(component_id(app[p].components, "Ignored<Target>"))
        /\ ignored_id(app[p], component_id(app[p].components, "Sprite")) = None
        /\ ignored_id(app[p], get_marker_id(app[p])) = None

\* C10: every ReplicationId stored in the ids map is a valid index of the info
\* vector, so get_info never reads out of range for an id taken from the registry.
C10_ValidIndex ==
    \A p \in Procs : \A cid \in DOMAIN get_ids(app[p]) :
        /\ 0 <= get_ids(app[p])[cid]
        /\ get_ids(app[p])[cid] < Len(app[p].info)

C10_Witness ==
    \E p \in Procs :
        /\ Len(app[p].info) = 2
        /\ Cardinality(DOMAIN get_ids(app[p])) = 1
        /\ \E cid \in DOMAIN get_ids(app[p]) : get_ids(app[p])[cid] = 1

(***************************************************************************)
(* Claims about the codec functions and their dispatch.                    *)
(***************************************************************************)
\* C4 (as claimed): asking the registry for the record of a received
\* ReplicationId that is no index of info yields an UnknownOrdinal error, returns
\* no record and invokes no deserialize function.
C4_UnknownOrdinalIsError ==
    last.op = "get_info" =>
        /\ last.result = "UnknownOrdinal"
        /\ "fn" \notin DOMAIN last
        /\ last.inserts = <<>>

\* C5: when decoding the cursor fails (truncated or malformed bytes),
\* deserialize_component and deserialize_mapped_component return an error and
\* do nothing else: the entity keeps every component as it was, nothing is
\* inserted, the mapper is not invoked and the entity map is unchanged.
C5_MalformedInputSafety ==
    [][(/\ wire.kind = "insert"
        /\ wire.rid < Len(app["client"].info)
        /\ get_info(app["client"], wire.rid).deserialize.fn
               \in {"deserialize_component", "deserialize_mapped_component"}
        /\ wire.shape \in {"truncated", "corrupted"}
        /\ wire' = NoMessage)
       => (/\ last'.op = "deserialize"
           /\ last'.result = "Err"
           /\ last'.inserts = <<>>
           /\ last'.maps = <<>>
           /\ entity' = entity
           /\ entity_map' = entity_map)]_vars

C5_Witness ==
    /\ last.op = "deserialize"
    /\ last.fn = Fn("deserialize_mapped_component", "Target")
    /\ last.shape = "truncated"
    /\ last.result = "Err"
    /\ entity["Target"] # None
    /\ entity["Health"] # None

\* C7: the registered serialize function followed by the registered deserialize
\* function installs a component equal to the value serialized, for the default
\* codec and for the entity-mapped codec on a value that embeds no entity.
C7_RoundTrip ==
    (/\ last.op = "deserialize"
     /\ \/ last.fn.fn = "deserialize_component"
        \/ last.fn.fn = "deserialize_mapped_component" /\ last.fn.C = "Health"
     /\ last.shape = "sent")
    => (/\ last.result = "Ok"
        /\ entity[last.fn.C] = last.sent)

C7_Witness ==
    /\ last.op = "deserialize"
    /\ last.fn = Fn("deserialize_mapped_component", "Health")
    /\ last.shape = "sent"
    /\ last.sent = Some(U16(65535))
    /\ entity["Health"] = Some(U16(65535))
    /\ ordinal_for(app["client"], "Target") # None
    /\ get_info(app["client"], ordinal_for(app["client"], "Target")[1]).deserialize
           = Fn("deserialize_component", "Target")
    /\ entity["Target"] = Some(Entity(2, 1))

\* C8: for a type registered with replicate_mapped that embeds one entity
\* reference, a value referencing server entity R, deserialized through a mapper
\* that maps R to L, is installed with its reference equal to L, and the entity
\* is never given the component with the unmapped reference R.
C8_EntityRemapping ==
    (/\ last.op = "deserialize"
     /\ last.fn = Fn("deserialize_mapped_component", "Target")
     /\ last.shape = "sent"
     /\ last.sent[1] \in DOMAIN entity_map)
    => (/\ last.result = "Ok"
        /\ entity["Target"] = Some(entity_map[last.sent[1]])
        /\ last.maps = last.sent
        /\ last.inserts = <<entity_map[last.sent[1]]>>)

C8_Witness ==
    /\ last.op = "deserialize"
    /\ last.fn = Fn("deserialize_mapped_component", "Target")
    /\ last.shape = "sent"
    /\ last.sent = Some(Entity(2, 1))
    /\ Entity(2, 1) \in DOMAIN entity_map
    /\ entity_map[Entity(2, 1)] = Entity(300, 0)
    /\ entity["Target"] = Some(Entity(300, 0))

\* C9: the registered remove function leaves the entity without the component
\* and every other component as it was, and raises no error; on an entity
\* without the component it changes nothing; the second of two calls in a row
\* changes nothing.
C9_IdempotentRemove ==
    [][(wire.kind = "remove" /\ wire' = NoMessage)
       => LET C == get_info(app["client"], wire.rid).remove.C
          IN  /\ last'.result = "Ok"
              /\ entity'[C] = None
              /\ \A D \in Types \ {C} : entity'[D] = entity[D]
              /\ entity[C] = None => entity' = entity
              /\ wire.again => entity' = entity]_vars

C9_Witness ==
    /\ last.op = "remove"
    /\ last.again
    /\ ~last.present
    /\ entity[last.fn.C] = None
    /\ \E D \in Types : entity[D] # None

====
